---- MODULE Spec2Model ----
(***************************************************************************)
(* Word-level model of the boundary-tag allocator of src/malloc.c.         *)
(*                                                                         *)
(* Memory is a map from byte addresses of 8-byte words to their contents;   *)
(* a word holds a size/flag word, a link (an address) or caller data.      *)
(* Words handed out by the operating system are zero-filled, and the map   *)
(* keeps the nonzero words only.  The code only ever forms multiples of 8  *)
(* from an 8-aligned break.                                                *)
(*                                                                         *)
(* A uint64_t request size is the record [hi, lo] standing for             *)
(* hi * 2^32 + lo, so that the 32-bit return type of round() is visible.   *)
(***************************************************************************)
EXTENDS Integers, Sequences, FiniteSets, TLC

VARIABLES
    mem,        \* the nonzero words of the break segment, by address
    brk_limit,  \* the highest break the operating system can grant
    heap,       \* static char* heap
    heap_end,   \* static char* heap_end
    first,      \* static struct block_header_t* first
    last,       \* static struct block_header_t* last
    free_list,  \* static struct block_header_t* free_list
    status,     \* "ok", "crash" (wild access) or "hang" (a loop that never ends)
    live,       \* caller's view: sequence of [p, sz] returned and not yet released
    op,         \* the last call: what was asked and what came back
    nops,       \* number of calls made so far
    nwrites,    \* number of caller writes so far
    plain,      \* TRUE while the caller has stored nothing into a payload and
                \* has asked for less than 2^32 bytes in every call
    drv         \* the driver's locals (main), unused by the other specifications

vars == <<mem, brk_limit, heap, heap_end, first, last, free_list, status, live, op, nops,
          nwrites, plain, drv>>

----------------------------------------------------------------------------
(* Bounds of the model *)

MaxOps == 5          \* calls of Malloc/Free in one behaviour
MaxLive == 2         \* pointers a caller holds at once
MaxWrites == 1       \* caller writes into live payload in one behaviour
MaxIncr == 3         \* increments of ALLOC_SIZE the operating system can map

(* Program constants *)

INIIAL_HEAP_SIZE == 1024
ALLOC_SIZE == 1024
MINIMUM_ALLOC_SIZE == 16
WORD == 8
HEADER_STRUCT == 24
MINIMUM_BLOCK_SIZE == WORD + MINIMUM_ALLOC_SIZE + WORD

NULL == 0
NEG1 == -1
Brk0 == 65536

\* request sizes offered by the caller of the general specification
U64(h, l) == [hi |-> h, lo |-> l]
Sizes == {U64(0, 1), U64(0, 24), U64(0, 2040), U64(1, 0)}
\* words a caller stores into its payload
UserWords == {1}

----------------------------------------------------------------------------
(* Block layout and encoding *)

InWindow(s, a) == a % WORD = 0 /\ a >= Brk0 /\ a < s.top
InHeap(s, a) == s.heap # NEG1 /\ a >= s.heap /\ a < s.heap_end

\* memory m with the word at a set to v
Poke(m, a, v) ==
    IF v = 0 THEN [x \in DOMAIN m \ {a} |-> m[x]]
    ELSE IF a \in DOMAIN m THEN [m EXCEPT ![a] = v]
    ELSE (a :> v) @@ m

\* the word at address a (0 when a is outside the mapped window: the access
\* is recorded as wild by Touch and the call ends in a crash)
Load(s, a) == IF a \in DOMAIN s.mem THEN s.mem[a] ELSE 0

\* record an access of the word at a
Touch(s, a) ==
    [s EXCEPT !.oob = @ \/ ~InHeap(s, a), !.wild = @ \/ ~InWindow(s, a)]

PutWord(s, a, v) ==
    [s EXCEPT !.oob = @ \/ ~InHeap(s, a),
              !.wild = @ \/ ~InWindow(s, a),
              !.mem = IF InWindow(s, a) THEN Poke(@, a, v) ELSE @]

is_free(s, block) == (Load(s, block) % 2) = 1

set_free(s, block) ==
    PutWord(s, block, Load(s, block) - (Load(s, block) % 2) + 1)

set_used(s, block) ==
    PutWord(s, block, Load(s, block) - (Load(s, block) % 2))

get_size(s, block) == Load(s, block) - (Load(s, block) % 2)

get_footer_from_header(s, header) == header + get_size(s, header) + WORD

get_header_from_footer(s, footer) == footer - get_size(s, footer) - WORD

head_addr(data) == data - WORD

data_addr(m_block) == m_block + WORD

\* a variant that forgets the footer word of the last block
next_available_block_nofooter(s) ==
    IF s.last = NULL THEN s.heap
    ELSE s.last + WORD + get_size(s, s.last)

next_available_block(s) ==
    IF s.last = NULL THEN s.heap
    ELSE s.last + WORD + get_size(s, s.last) + WORD

\* unsigned int: the low 32 bits (identity below 2^31, the model's range)
Trunc32(x) == (x % 65536) + 65536 * ((x \div 65536) % 65536)

\* ((size + 7) & -8) returned as unsigned int: the high half is lost
round(size) == Trunc32(((size.lo + 7) \div WORD) * WORD)

\* set_free / set_used applied to get_footer_from_header(block)
set_free_footer(s, block) == set_free(s, get_footer_from_header(s, block))
set_used_footer(s, block) == set_used(s, get_footer_from_header(s, block))

----------------------------------------------------------------------------
(* The operating system's break: sbrk grants an extension while the call's  *)
(* budget of grants lasts and the mapped window has room, else refuses      *)

OsBreak(s) == IF s.heap = NEG1 THEN Brk0 ELSE s.heap_end

OsGrants(s, n) ==
    s.grants > 0 /\ OsBreak(s) + n <= s.top

\* a variant that reports failure although the break was moved
Sbrk_reports_failure(s) ==
    IF OsGrants(s, ALLOC_SIZE)
    THEN [s |-> [s EXCEPT !.heap_end = @ + ALLOC_SIZE,
                          !.grants = @ - 1, !.asked = @ + 1],
          rc |-> 1]
    ELSE [s |-> [s EXCEPT !.refused = TRUE, !.asked = @ + 1], rc |-> 1]

\* Sbrk(): [s, rc], rc = 0 on success and 1 on refusal
Sbrk(s) ==
    IF OsGrants(s, ALLOC_SIZE)
    THEN [s |-> [s EXCEPT !.heap_end = @ + ALLOC_SIZE,
                          !.grants = @ - 1, !.asked = @ + 1],
          rc |-> 0]
    ELSE [s |-> [s EXCEPT !.refused = TRUE, !.asked = @ + 1], rc |-> 1]

----------------------------------------------------------------------------
(* Free list *)

\* lines 97-98
link_at_head(s, block) ==
    PutWord(PutWord(s, block + 8, s.free_list), block + 16, NULL)

\* lines 99-102
set_head(s, block) ==
    [(IF s.free_list # NULL THEN PutWord(s, s.free_list + 16, block) ELSE s)
        EXCEPT !.free_list = block]

add_to_free_list(s, block) ==
    set_free_footer(set_free(set_head(link_at_head(s, block), block), block),
                    block)

\* lines 109-111
unlink_next(s, block) ==
    IF Load(s, block + 8) # NULL
    THEN PutWord(Touch(Touch(s, block + 8), block + 16),
                 Load(s, block + 8) + 16, Load(s, block + 16))
    ELSE Touch(s, block + 8)

\* lines 112-114
unlink_prev(s, block) ==
    IF Load(s, block + 16) # NULL
    THEN PutWord(Touch(Touch(s, block + 8), block + 16),
                 Load(s, block + 16) + 8, Load(s, block + 8))
    ELSE Touch(s, block + 16)

\* lines 115-117
unlink_head(s, block) ==
    IF block = s.free_list
    THEN [Touch(s, block + 8) EXCEPT !.free_list = Load(s, block + 8)]
    ELSE s

remove_from_free_list(s, block) ==
    set_used_footer(
        set_used(unlink_head(unlink_prev(unlink_next(s, block), block), block),
                 block),
        block)

----------------------------------------------------------------------------
(* Bootstrap *)

init(s) ==
    IF s.heap = NEG1
    THEN IF OsGrants(s, INIIAL_HEAP_SIZE)
         THEN [s EXCEPT !.heap = Brk0, !.heap_end = Brk0 + INIIAL_HEAP_SIZE,
                        !.grants = @ - 1, !.asked = @ + 1]
         ELSE [s EXCEPT !.heap = NEG1, !.heap_end = NEG1,
                        !.refused = TRUE, !.asked = @ + 1]
    ELSE s

----------------------------------------------------------------------------
(* Allocation engine *)

\* what a call of Malloc hands back: the globals, the pointer, and whether
\* the call never returns
Result(s, ret, hang, reused, split) ==
    [s |-> s, ret |-> ret, hang |-> hang, reused |-> reused, split |-> split]

\* a variant of the scan that passes over a block of exactly the size asked
RECURSIVE FindFit_strict(_, _, _, _)
FindFit_strict(s, m_block, size, seen) ==
    IF m_block = NULL THEN [s |-> s, blk |-> NULL, hang |-> FALSE]
    ELSE IF m_block \in seen THEN [s |-> s, blk |-> NULL, hang |-> TRUE]
    ELSE IF ~InWindow(s, m_block)
         THEN [s |-> Touch(s, m_block), blk |-> NULL, hang |-> FALSE]
    ELSE IF get_size(s, m_block) > size
         THEN [s |-> Touch(s, m_block), blk |-> m_block, hang |-> FALSE]
    ELSE FindFit_strict(Touch(Touch(s, m_block), m_block + 8),
                        Load(s, m_block + 8), size, seen \cup {m_block})

\* the scan of lines 148-167: the first block of the list whose size is at
\* least `size`.  Result [s, blk, hang]: blk = NULL when the list ends with
\* no fit; hang when the scan comes back to a block it has already passed
\* with no fit (the list is cyclic and the loop never ends).
RECURSIVE FindFit(_, _, _, _)
FindFit(s, m_block, size, seen) ==
    IF m_block = NULL THEN [s |-> s, blk |-> NULL, hang |-> FALSE]
    ELSE IF m_block \in seen THEN [s |-> s, blk |-> NULL, hang |-> TRUE]
    ELSE IF ~InWindow(s, m_block)
         THEN [s |-> Touch(s, m_block), blk |-> NULL, hang |-> FALSE]
    ELSE IF get_size(s, m_block) >= size
         THEN [s |-> Touch(s, m_block), blk |-> m_block, hang |-> FALSE]
    ELSE FindFit(Touch(Touch(s, m_block), m_block + 8),
                 Load(s, m_block + 8), size, seen \cup {m_block})

\* line 152
total_size_of(s, m_block) == get_size(s, m_block) + HEADER_STRUCT + WORD

\* line 153
size_needed_for(size) == size + WORD + WORD

\* line 154
splits(s, m_block, size) ==
    total_size_of(s, m_block) - size_needed_for(size) >= MINIMUM_BLOCK_SIZE

\* lines 155-159: the remainder becomes a free block
split_off(s, new_block, remainder) ==
    set_free_footer(
        set_free(add_to_free_list(PutWord(s, new_block, remainder), new_block),
                 new_block),
        new_block)

\* lines 161-163
take(s, m_block, size) ==
    set_used_footer(set_used(PutWord(s, m_block, size), m_block), m_block)

\* lines 150-164: reuse of the free block m_block for `size`
Reuse(s, m_block, size) ==
    Result(take(IF splits(s, m_block, size)
                THEN split_off(s, m_block + WORD + size + WORD,
                               total_size_of(s, m_block) - size_needed_for(size)
                                   - WORD - WORD)
                ELSE s,
                m_block, size),
           data_addr(m_block), FALSE, m_block, splits(s, m_block, size))

\* lines 169-173: grow until the block fits; ok = FALSE on a refusal
RECURSIVE GrowLoop(_, _, _)
GrowLoop(s, next_block, size) ==
    IF next_block + WORD + size + WORD > s.heap_end
    THEN IF Sbrk(s).rc = 1 THEN [s |-> Sbrk(s).s, ok |-> FALSE]
         ELSE GrowLoop(Sbrk(s).s, next_block, size)
    ELSE [s |-> s, ok |-> TRUE]

\* lines 174-180
place(s, next_block, size) ==
    [set_used_footer(set_used(PutWord(s, next_block, size), next_block),
                     next_block)
        EXCEPT !.first = IF @ = NULL THEN next_block ELSE @,
               !.last = next_block]

\* lines 169-181, after the loop
carved(g, next_block, size) ==
    IF g.ok
    THEN Result(place(g.s, next_block, size), data_addr(next_block), FALSE,
                NULL, FALSE)
    ELSE Result(g.s, NULL, FALSE, NULL, FALSE)

\* lines 168-181: carve a new block from the heap tail
Carve(s, size) ==
    carved(GrowLoop(IF s.last # NULL THEN Touch(s, s.last) ELSE s,
                    next_available_block(s), size),
           next_available_block(s), size)

\* the size after lines 143-146 (clamp, then round)
Rounded(size) ==
    round(IF size.hi = 0 /\ size.lo < MINIMUM_ALLOC_SIZE
          THEN U64(0, MINIMUM_ALLOC_SIZE) ELSE size)

\* lines 148-181, given the outcome of the scan
after_scan(f, size) ==
    IF f.hang \/ f.s.wild THEN Result(f.s, NULL, f.hang, NULL, FALSE)
    ELSE IF f.blk # NULL THEN Reuse(f.s, f.blk, size)
    ELSE Carve(f.s, size)

\* lines 140-181
after_init(s, size) ==
    IF s.heap = NEG1 \/ s.heap_end = NEG1
    THEN Result(s, NULL, FALSE, NULL, FALSE)
    ELSE after_scan(FindFit(s, s.free_list, size, {}), size)

\* void* Malloc(uint64_t size): [s, ret, hang, reused, split]
Malloc(s, size) ==
    after_init(IF s.heap = NEG1 THEN init(s) ELSE s, Rounded(size))

----------------------------------------------------------------------------
(* Deallocation engine *)

\* lines 208-212, 220-224, 232-236: write the merged block at `block`
Merge(s, block, usable_size) ==
    add_to_free_list(
        set_free_footer(
            PutWord(set_free(PutWord(s, block, usable_size), block),
                    get_footer_from_header(PutWord(s, block, usable_size), block),
                    usable_size),
            block),
        block)

\* lines 192-195
prev_block_of(s, m_block) ==
    IF m_block # s.first
    THEN get_header_from_footer(s, m_block - WORD)
    ELSE NULL

\* lines 196-198
next_block_of(s, m_block) ==
    IF m_block # s.last
    THEN m_block + WORD + get_size(s, m_block) + WORD
    ELSE NULL

\* the words lines 192-200 read
probe(s, m_block) ==
    LET a == IF m_block # s.first THEN Touch(s, m_block - WORD) ELSE s
        b == IF m_block # s.last THEN Touch(a, m_block) ELSE a
        c == IF next_block_of(s, m_block) # NULL
             THEN Touch(b, next_block_of(s, m_block)) ELSE b
    IN IF prev_block_of(s, m_block) # NULL
       THEN Touch(c, prev_block_of(s, m_block)) ELSE c

retarget(s, was, to) == IF was = s.last THEN [s EXCEPT !.last = to] ELSE s

\* lines 201-212
merge_both(s, m_block, prev_block, next_block) ==
    Merge(Touch(s, m_block), prev_block,
          get_size(s, prev_block) + get_size(s, m_block)
              + get_size(s, next_block) + 3 * WORD + 3 * WORD - WORD - WORD)

\* lines 214-224 and 226-236: `left` absorbs `right`
merge_two(s, left, right) ==
    Merge(Touch(Touch(s, left), right), left,
          get_size(s, left) + get_size(s, right)
              + 2 * WORD + 2 * WORD - WORD - WORD)

\* lines 199-241
coalesce(s, o, m_block, prev_block, next_block) ==
    IF next_block # NULL /\ is_free(o, next_block)
       /\ prev_block # NULL /\ is_free(o, prev_block)
    THEN merge_both(
             retarget(remove_from_free_list(
                          remove_from_free_list(s, next_block), prev_block),
                      next_block, prev_block),
             m_block, prev_block, next_block)
    ELSE IF prev_block # NULL /\ is_free(o, prev_block)
    THEN merge_two(retarget(remove_from_free_list(s, prev_block),
                            m_block, prev_block),
                   prev_block, m_block)
    ELSE IF next_block # NULL /\ is_free(o, next_block)
    THEN merge_two(retarget(remove_from_free_list(s, next_block),
                            next_block, m_block),
                   m_block, next_block)
    ELSE add_to_free_list(set_free_footer(set_free(s, m_block), m_block),
                          m_block)

\* void Free(void* p), p # 0
Free(s, p) ==
    coalesce(probe(s, head_addr(p)), s, head_addr(p),
             prev_block_of(s, head_addr(p)), next_block_of(s, head_addr(p)))

----------------------------------------------------------------------------
(* The program state as one record, and the calls as actions *)

\* the allocator's globals at the start of a call in which the operating
\* system will grant `g` more extensions
St(g) ==
    [mem |-> mem, top |-> brk_limit, heap |-> heap, heap_end |-> heap_end, first |-> first,
     last |-> last, free_list |-> free_list,
     oob |-> FALSE, wild |-> FALSE, grants |-> g, refused |-> FALSE, asked |-> 0]

NoOp == [kind |-> "none", size |-> U64(0, 0), p |-> NULL, ret |-> NULL,
         refused |-> FALSE, asked |-> 0, reused |-> NULL, split |-> FALSE,
         oob |-> FALSE]

\* a call that returned leaves its globals; one that touched a word outside
\* the mapped window crashed; one that touched a word outside
\* [heap, heap_end) inside the window either crashed or went on
Settle(s, hang, fault, o) ==
    IF s.wild \/ (s.oob /\ fault)
    THEN /\ status' = "crash"
         /\ op' = [o EXCEPT !.ret = NULL, !.oob = TRUE]
         /\ UNCHANGED <<mem, heap, heap_end, first, last, free_list>>
    ELSE IF hang
    THEN /\ status' = "hang"
         /\ op' = [o EXCEPT !.ret = NULL]
         /\ UNCHANGED <<mem, heap, heap_end, first, last, free_list>>
    ELSE /\ status' = "ok"
         /\ op' = o
         /\ mem' = s.mem
         /\ heap' = s.heap
         /\ heap_end' = s.heap_end
         /\ first' = s.first
         /\ last' = s.last
         /\ free_list' = s.free_list

Faults(s) == IF s.oob /\ ~s.wild THEN BOOLEAN ELSE {FALSE}

\* the locals of a caller that runs a fixed program (main, or a scenario)
Idle == [pc |-> "api", i |-> 0, prev |-> NEG1, ptr1 |-> NULL, ptr2 |-> NULL,
         printed |-> 0, mismatch |-> 0, refused |-> FALSE,
         n |-> 0, a |-> NULL, b |-> NULL, c |-> NULL, end0 |-> NEG1]

NoWords == [x \in {} |-> 0]

Init ==
    /\ mem = NoWords
    /\ brk_limit = Brk0 + MaxIncr * ALLOC_SIZE
    /\ heap = NEG1
    /\ heap_end = NEG1
    /\ first = NULL
    /\ last = NULL
    /\ free_list = NULL
    /\ status = "ok"
    /\ live = <<>>
    /\ op = NoOp
    /\ nops = 0
    /\ nwrites = 0
    /\ plain = TRUE
    /\ drv = Idle

MallocOp(r, size) ==
    [NoOp EXCEPT !.kind = "malloc", !.size = size, !.ret = r.ret,
                 !.refused = r.s.refused, !.asked = r.s.asked,
                 !.reused = r.reused, !.split = r.split, !.oob = r.s.oob]

Returned(r, size) ==
    \E fault \in Faults(r.s) :
        /\ Settle(r.s, r.hang, fault, MallocOp(r, size))
        /\ live' = IF status' = "ok" /\ r.ret # NULL
                   THEN Append(live, [p |-> r.ret,
                                      sz |-> get_size(r.s, head_addr(r.ret)),
                                      req |-> size])
                   ELSE live

MallocCall(size, g) ==
    /\ status = "ok"
    /\ nops < MaxOps
    /\ Len(live) < MaxLive
    /\ Returned(Malloc(St(g), size), size)
    /\ nops' = nops + 1
    /\ plain' = (plain /\ size.hi = 0)
    /\ UNCHANGED <<brk_limit, nwrites, drv>>

Without(q, i) == [j \in 1..(Len(q) - 1) |-> IF j < i THEN q[j] ELSE q[j + 1]]

Released(s, p) ==
    \E fault \in Faults(s) :
        Settle(s, FALSE, fault, [NoOp EXCEPT !.kind = "free", !.p = p, !.oob = s.oob])

FreeCall(i) ==
    /\ status = "ok"
    /\ nops < MaxOps
    /\ i \in 1..Len(live)
    /\ Released(Free(St(0), live[i].p), live[i].p)
    /\ live' = Without(live, i)
    /\ nops' = nops + 1
    /\ UNCHANGED <<brk_limit, nwrites, plain, drv>>

\* a variant without the test of lines 185-187
FreeNull_unguarded ==
    /\ status = "ok"
    /\ nops < MaxOps
    /\ Released(Free(St(0), NULL), NULL)
    /\ nops' = nops + 1
    /\ UNCHANGED <<brk_limit, live, nwrites, plain, drv>>

\* Free(0): lines 185-187
FreeNull ==
    /\ status = "ok"
    /\ nops < MaxOps
    /\ op' = [NoOp EXCEPT !.kind = "free"]
    /\ nops' = nops + 1
    /\ UNCHANGED <<mem, brk_limit, heap, heap_end, first, last, free_list, status,
                   live, nwrites, plain, drv>>

\* the caller stores a word into a payload it owns: its first word
\* (atEnd = FALSE) or its last word (atEnd = TRUE)
WriteAddr(i, atEnd) ==
    IF atEnd THEN live[i].p + live[i].sz - WORD ELSE live[i].p

CallerWrite(i, atEnd, v) ==
    /\ status = "ok"
    /\ nwrites < MaxWrites
    /\ i \in 1..Len(live)
    /\ live[i].sz >= WORD
    /\ InWindow(St(0), WriteAddr(i, atEnd))
    /\ mem' = Poke(mem, WriteAddr(i, atEnd), v)
    /\ op' = [NoOp EXCEPT !.kind = "write", !.p = WriteAddr(i, atEnd)]
    /\ nwrites' = nwrites + 1
    /\ plain' = FALSE
    /\ UNCHANGED <<brk_limit, heap, heap_end, first, last, free_list, status, live,
                   nops, drv>>

Next ==
    \/ \E size \in Sizes, g \in 0..MaxIncr : MallocCall(size, g)
    \/ \E i \in 1..MaxLive : FreeCall(i)
    \/ FreeNull
    \/ \E i \in 1..MaxLive, atEnd \in BOOLEAN, v \in UserWords :
           CallerWrite(i, atEnd, v)

Spec == Init /\ [][Next]_vars

----------------------------------------------------------------------------
(* The driver: main(), lines 246-269 *)

DriverIncr == 160       \* increments the operating system can map for main
DRIVER_FROM == 2
DRIVER_TO == 200

InitDriver ==
    /\ mem = NoWords
    /\ brk_limit = Brk0 + DriverIncr * ALLOC_SIZE
    /\ heap = NEG1
    /\ heap_end = NEG1
    /\ first = NULL
    /\ last = NULL
    /\ free_list = NULL
    /\ status = "ok"
    /\ live = <<>>
    /\ op = NoOp
    /\ nops = 0
    /\ nwrites = 0
    /\ plain = TRUE
    /\ drv = [Idle EXCEPT !.pc = "loop1", !.i = DRIVER_FROM]

\* lines 250-254: the previous block does not end where this one starts
Gap(s, ptr) ==
    drv.prev # NEG1
    /\ head_addr(drv.prev) + get_size(s, head_addr(drv.prev)) + WORD + WORD
           # head_addr(ptr)

\* lines 249-258: one round of the first loop
Loop1(g) ==
    /\ drv.pc = "loop1"
    /\ status = "ok"
    /\ LET r == Malloc(St(g), U64(0, drv.i * 8))
       IN \E fault \in Faults(r.s) :
            /\ Settle(r.s, r.hang, fault, MallocOp(r, U64(0, drv.i * 8)))
            /\ drv' = IF status' # "ok" THEN drv
                      ELSE IF (drv.prev # NEG1 /\ ~InWindow(r.s, head_addr(drv.prev)))
                              \/ (Gap(r.s, r.ret) /\ ~InWindow(r.s, head_addr(r.ret)))
                      THEN [drv EXCEPT !.pc = "segv", !.refused = @ \/ r.s.refused]
                      ELSE [drv EXCEPT
                              !.printed = IF Gap(r.s, r.ret) THEN @ + 1 ELSE @,
                              !.prev = r.ret,
                              !.refused = @ \/ r.s.refused,
                              !.i = IF drv.i + 1 < DRIVER_TO THEN drv.i + 1
                                    ELSE DRIVER_FROM,
                              !.pc = IF drv.i + 1 < DRIVER_TO THEN "loop1"
                                     ELSE "malloc1"]
    /\ UNCHANGED <<brk_limit, live, nops, nwrites, plain>>

\* lines 261 and 263
Loop2Malloc(g) ==
    /\ drv.pc \in {"malloc1", "malloc2"}
    /\ status = "ok"
    /\ LET r == Malloc(St(g), U64(0, drv.i * 8))
       IN \E fault \in Faults(r.s) :
            /\ Settle(r.s, r.hang, fault, MallocOp(r, U64(0, drv.i * 8)))
            /\ drv' = IF status' # "ok" THEN drv
                      ELSE IF drv.pc = "malloc1"
                      THEN [drv EXCEPT !.ptr1 = r.ret, !.pc = "free1",
                                       !.refused = @ \/ r.s.refused]
                      ELSE [drv EXCEPT !.ptr2 = r.ret, !.pc = "free2",
                                       !.refused = @ \/ r.s.refused]
    /\ UNCHANGED <<brk_limit, live, nops, nwrites, plain>>

\* what lines 262 and 264-267 leave in the locals
AfterFree ==
    IF drv.pc = "free1" THEN [drv EXCEPT !.pc = "malloc2"]
    ELSE [drv EXCEPT
            !.mismatch = IF drv.ptr1 # drv.ptr2 THEN @ + 1 ELSE @,
            !.i = drv.i + 1,
            !.pc = IF drv.i + 1 < DRIVER_TO THEN "malloc1" ELSE "done"]

Freed == IF drv.pc = "free1" THEN drv.ptr1 ELSE drv.ptr2

\* lines 262 and 264
Loop2Free ==
    /\ drv.pc \in {"free1", "free2"}
    /\ status = "ok"
    /\ IF Freed = NULL
       THEN /\ op' = [NoOp EXCEPT !.kind = "free"]
            /\ UNCHANGED <<mem, heap, heap_end, first, last, free_list, status>>
       ELSE Released(Free(St(0), Freed), Freed)
    /\ drv' = IF status' = "ok" THEN AfterFree ELSE drv
    /\ UNCHANGED <<brk_limit, live, nops, nwrites, plain>>

NextDriver ==
    \/ \E g \in 0..2 : Loop1(g)
    \/ \E g \in 0..2 : Loop2Malloc(g)
    \/ Loop2Free

DriverSpec == InitDriver /\ [][NextDriver]_vars

----------------------------------------------------------------------------
(* The coalescing scenario of the specification's section 8: on a fresh    *)
(* heap, A, B, C = allocate(n) three times; release(B); release(A);        *)
(* allocate(s) with n < s <= 2n + 16.  The caller may store into the       *)
(* payloads it holds at any point.                                         *)

ScenarioSizes == {16, 24, 40, 504}

FinalSizes(n) == {n + 1, n + 8, 2 * n + 9, 2 * n + 16}

InitScenario ==
    /\ mem = NoWords
    /\ brk_limit = Brk0 + MaxIncr * ALLOC_SIZE
    /\ heap = NEG1
    /\ heap_end = NEG1
    /\ first = NULL
    /\ last = NULL
    /\ free_list = NULL
    /\ status = "ok"
    /\ live = <<>>
    /\ op = NoOp
    /\ nops = 0
    /\ nwrites = 0
    /\ plain = TRUE
    /\ \E n \in ScenarioSizes : drv = [Idle EXCEPT !.pc = "allocA", !.n = n]

\* A, B, C = allocate(n); the scenario is void when one of them fails
Allocated(ret) ==
    IF ret = NULL THEN [drv EXCEPT !.pc = "void"]
    ELSE IF drv.pc = "allocA" THEN [drv EXCEPT !.a = ret, !.pc = "allocB"]
    ELSE IF drv.pc = "allocB" THEN [drv EXCEPT !.b = ret, !.pc = "allocC"]
    ELSE [drv EXCEPT !.c = ret, !.pc = "freeB"]

ScenarioAlloc(g) ==
    /\ drv.pc \in {"allocA", "allocB", "allocC"}
    /\ status = "ok"
    /\ Returned(Malloc(St(g), U64(0, drv.n)), U64(0, drv.n))
    /\ drv' = IF status' = "ok" THEN Allocated(op'.ret) ELSE drv
    /\ UNCHANGED <<brk_limit, nops, nwrites, plain>>

\* release(B), then release(A)
ScenarioFree ==
    /\ drv.pc \in {"freeB", "freeA"}
    /\ status = "ok"
    /\ LET p == IF drv.pc = "freeB" THEN drv.b ELSE drv.a
       IN /\ Released(Free(St(0), p), p)
          /\ live' = SelectSeq(live, LAMBDA e : e.p # p)
    /\ drv' = IF status' # "ok" THEN drv
              ELSE IF drv.pc = "freeB" THEN [drv EXCEPT !.pc = "freeA"]
              ELSE [drv EXCEPT !.pc = "alloc", !.end0 = heap_end]
    /\ UNCHANGED <<brk_limit, nops, nwrites, plain>>

\* allocate(s), n < s <= 2n + 16
ScenarioFinal(s, g) ==
    /\ drv.pc = "alloc"
    /\ status = "ok"
    /\ s \in FinalSizes(drv.n)
    /\ Returned(Malloc(St(g), U64(0, s)), U64(0, s))
    /\ drv' = IF status' = "ok" THEN [drv EXCEPT !.pc = "done"] ELSE drv
    /\ UNCHANGED <<brk_limit, nops, nwrites, plain>>

NextScenario ==
    \/ \E g \in 0..MaxIncr : ScenarioAlloc(g)
    \/ ScenarioFree
    \/ \E s \in 17..1024, g \in 0..MaxIncr : ScenarioFinal(s, g)
    \/ \E i \in 1..MaxLive, atEnd \in BOOLEAN, v \in UserWords :
           CallerWrite(i, atEnd, v)

ScenarioSpec == InitScenario /\ [][NextScenario]_vars

----------------------------------------------------------------------------
(* Reading the heap of a state *)

Cur == St(0)

Max(a, b) == IF a >= b THEN a ELSE b

RoundUp8(x) == ((x + 7) \div 8) * 8

\* the blocks met from block b on, stepping by header + usable size + footer,
\* up to `last` (or until the walk leaves the heap)
RECURSIVE WalkFrom(_, _)
WalkFrom(b, fuel) ==
    IF b = last THEN <<b>>
    ELSE IF fuel = 0 \/ ~InHeap(Cur, b) \/ b % WORD # 0 THEN <<>>
    ELSE <<b>> \o WalkFrom(b + WORD + get_size(Cur, b) + WORD, fuel - 1)

HeapWalk ==
    IF first = NULL THEN <<>> ELSE WalkFrom(first, (brk_limit - Brk0) \div WORD)

\* the blocks met from the head of the free list along the next links
RECURSIVE ListFrom(_, _)
ListFrom(b, seen) ==
    IF b = NULL \/ b \in seen \/ ~InWindow(Cur, b) THEN <<>>
    ELSE <<b>> \o ListFrom(Load(Cur, b + 8), seen \cup {b})

FreeListBlocks == ListFrom(free_list, {})

----------------------------------------------------------------------------
(* The claims below that the code breaks are stated for the plainest    *)
(* callers: those that have stored nothing into a payload and have asked *)
(* for less than 2^32 bytes in every call (plain = TRUE).                 *)

(* C1: no two live regions overlap, and no pointer is live twice *)

Disjoint(a, b) == a.p # b.p /\ (a.p + a.sz <= b.p \/ b.p + b.sz <= a.p)

C1_NonOverlap ==
    plain => \A i, j \in 1..Len(live) : i < j => Disjoint(live[i], live[j])

(* C2: for every request size s, a successful allocate(s) returns a
   multiple of 8 whose header records exactly max(round_up_8(s), 16) *)

RecordsExactly(size, rec) ==
    size.hi = 0 /\ rec = Max(RoundUp8(size.lo), MINIMUM_ALLOC_SIZE)

C2_AlignedAndSized ==
    (status = "ok" /\ op.kind = "malloc" /\ op.ret # NULL /\ nwrites = 0)
        => /\ op.ret % 8 = 0
           /\ RecordsExactly(op.size, Load(Cur, head_addr(op.ret)))

(* C3: after every completed call, no two physically consecutive blocks
   of the walk from first to last are both free *)

C3_NoAdjacentFree ==
    (status = "ok" /\ plain) =>
        \A k \in 1..(Len(HeapWalk) - 1) :
            ~(is_free(Cur, HeapWalk[k]) /\ is_free(Cur, HeapWalk[k + 1]))

(* C4: after every completed call, the walk from first by framed sizes
   lands exactly on last, whose end is at or below the heap end *)

C4_Tiling ==
    (status = "ok" /\ plain /\ first # NULL) =>
        /\ Len(HeapWalk) > 0
        /\ HeapWalk[Len(HeapWalk)] = last
        /\ last + WORD + get_size(Cur, last) + WORD <= heap_end

(* C5: every allocate and release call terminates: the scan of the free
   list never runs forever *)

C5_Terminates == plain => status # "hang"

(* C6: allocate returns NULL only if the operating system refused an
   extension in that call (at bootstrap or in the growth loop): a call that
   returns and was granted every extension it asked for returns non-NULL *)

C6_NullOnlyOnRefusal ==
    (status = "ok" /\ op.kind = "malloc" /\ op.ret = NULL) => op.refused

\* a call that asked for extensions, was granted each, and returned a pointer
C6_Witness ==
    status = "ok" /\ op.kind = "malloc" /\ op.asked >= 2 /\ ~op.refused
        /\ op.ret # NULL

(* C7: once the operating system has refused the bootstrap request, every
   later allocate returns NULL *)

BootstrapRefused == op.kind = "malloc" /\ op.refused /\ heap = NEG1

C7_RefusalPermanent ==
    [][(BootstrapRefused /\ op'.kind = "malloc") => op'.ret = NULL]_vars

(* C9: while nothing has been released (the free list is empty), the
   blocks handed out lie back to back: the first at the heap start, each
   next one at the previous header plus 8 + usable size + 8 *)

C9_ContiguousGrowth ==
    (status = "ok" /\ free_list = NULL) =>
        \A i \in 1..Len(live) :
            head_addr(live[i].p) =
                IF i = 1 THEN heap
                ELSE head_addr(live[i - 1].p) + WORD
                         + get_size(Cur, head_addr(live[i - 1].p)) + WORD

\* two blocks handed out back to back, the second after a heap extension
C9_Witness ==
    status = "ok" /\ free_list = NULL /\ Len(live) = 2
        /\ live[2].p > live[1].p /\ op.kind = "malloc" /\ op.asked >= 1

(* C8: run by main after its first loop, for i = 2..199 the sequence
   p1 = allocate(8i); release(p1); p2 = allocate(8i); release(p2) completes
   and yields p1 = p2, as long as the operating system refuses nothing *)

C8_Determinism ==
    ~drv.refused => (status = "ok" /\ drv.mismatch = 0)

(* C10: after A, B, C = allocate(n) on a fresh heap, release(B) and
   release(A), there is exactly one free block: it starts at A's header,
   has usable size 2n + 16, and its header and footer both record it; a
   following allocate(s), n < s <= 2n + 16, returns A's payload pointer
   and leaves the heap end unchanged *)

OneFreeBlockAtA ==
    /\ FreeListBlocks = <<head_addr(drv.a)>>
    /\ \A k \in 1..Len(HeapWalk) :
           is_free(Cur, HeapWalk[k]) <=> HeapWalk[k] = head_addr(drv.a)
    /\ Load(Cur, head_addr(drv.a)) = 2 * drv.n + 16 + 1
    /\ Load(Cur, head_addr(drv.a) + WORD + 2 * drv.n + 16) = 2 * drv.n + 16 + 1

C10_Coalescing ==
    /\ status = "ok"
    /\ drv.pc = "alloc" => OneFreeBlockAtA
    /\ (drv.pc = "done" /\ op.kind = "malloc")
           => (op.ret = drv.a /\ heap_end = drv.end0)

\* the same, for a caller that stores nothing into A, B or C
C10_PlainCoalescing == plain => C10_Coalescing

(* C11: for every 64-bit request size s, also s >= 2^32, a successful
   allocate(s) records a usable size that is at least s, at least 16 and a
   multiple of 8 *)

\* rec >= hi * 2^32 + lo, for a recorded size below 2^31
Covers(rec, size) == size.hi = 0 /\ rec >= size.lo

C11_SizeCoversRequest ==
    (status = "ok" /\ op.kind = "malloc" /\ op.ret # NULL /\ nwrites = 0)
        => /\ Covers(get_size(Cur, head_addr(op.ret)), op.size)
           /\ get_size(Cur, head_addr(op.ret)) >= MINIMUM_ALLOC_SIZE
           /\ get_size(Cur, head_addr(op.ret)) % 8 = 0

(* C12: release(null) changes nothing: heap start, heap end, first, last,
   the free-list head and every word of memory stay as they were, in every
   reachable state, also before bootstrap *)

C12_FreeNullNoOp ==
    [][(op'.kind = "free" /\ op'.p = NULL)
           => /\ status' = "ok"
              /\ UNCHANGED <<mem, heap, heap_end, first, last, free_list>>]_vars

\* release(null) has run on a heap that holds a free block and a live one
C12_Witness ==
    /\ op.kind = "free" /\ op.p = NULL
    /\ status = "ok" /\ free_list # NULL /\ Len(live) > 0

(* C13: after every completed call the blocks reachable from the free-list
   head by next links are exactly the blocks whose header has the free flag,
   and no block held by a caller is reachable from the head *)

Range(q) == {q[k] : k \in 1..Len(q)}

C13_FreeListMembership ==
    (status = "ok" /\ plain) =>
        /\ Range(FreeListBlocks)
               = {b \in Range(HeapWalk) : is_free(Cur, b)}
        /\ \A i \in 1..Len(live) :
               head_addr(live[i].p) \notin Range(FreeListBlocks)

(* C14: after every completed call, the footer word of every free block
   (at header + 8 + usable size) equals its header word *)

C14_HeaderFooterAgree ==
    (status = "ok" /\ plain) =>
        \A b \in Range(FreeListBlocks) :
            is_free(Cur, b) =>
                Load(Cur, get_footer_from_header(Cur, b)) = Load(Cur, b)

(* C15: in every release of a block that is not first, the left
   neighbour derived from the footer word just before its header is the
   header of the physically preceding block *)

\* block b is physically preceded by the block the probe of lines 192-195
\* derives for it
ProbeFindsLeft(b) ==
    \E k \in 1..(Len(HeapWalk) - 1) :
        HeapWalk[k + 1] = b /\ prev_block_of(Cur, b) = HeapWalk[k]

C15_LeftNeighbour ==
    [][(op'.kind = "free" /\ op'.p # NULL /\ plain
            /\ head_addr(op'.p) # first)
           => ProbeFindsLeft(head_addr(op'.p))]_vars

(* C16: when allocate reuses a free block of usable size G for a rounded
   request S: if G - S >= 32 the returned block gets usable size S and a
   free block of usable size G - S - 16 is created right after it and put
   on the free list; otherwise nothing is created and the returned block
   keeps usable size G *)

SplitDone(b, G, S) ==
    /\ get_size(Cur', b) = S
    /\ (b + WORD + S + WORD) \in Range(FreeListBlocks')
    /\ Load(Cur', b + WORD + S + WORD) = G - S - 16 + 1

NoSplitDone(b, G) ==
    /\ get_size(Cur', b) = G
    /\ FreeListBlocks' = FreeListBlocks

C16_SplitRule ==
    [][(op'.kind = "malloc" /\ status' = "ok" /\ plain'
            /\ op'.reused # NULL)
           => IF get_size(Cur, op'.reused) - Rounded(op'.size) >= 32
              THEN SplitDone(op'.reused, get_size(Cur, op'.reused),
                             Rounded(op'.size))
              ELSE NoSplitDone(op'.reused, get_size(Cur, op'.reused))]_vars

(* C17: allocate returns the first block in free-list order whose usable
   size is at least the rounded request, and carves from the heap tail
   only when no listed block is large enough; the search itself writes
   nothing *)

Fits(L, S) == {k \in 1..Len(L) : get_size(Cur, L[k]) >= S}

Least(K) == CHOOSE k \in K : \A j \in K : k <= j

TailBlock == IF last = NULL THEN heap' ELSE next_available_block(Cur)

\* L is the free list before the call and K the indices of its blocks that
\* are large enough
TookFirstFit(L, K) ==
    IF K # {}
    THEN /\ op'.reused = L[Least(K)]
         /\ op'.ret = data_addr(L[Least(K)])
         /\ heap_end' = heap_end
    ELSE /\ op'.reused = NULL
         /\ op'.ret = data_addr(TailBlock)

C17_FirstFit ==
    [][(op'.kind = "malloc" /\ status' = "ok" /\ op'.ret # NULL)
           => /\ TookFirstFit(FreeListBlocks,
                              Fits(FreeListBlocks, Rounded(op'.size)))
              /\ heap # NEG1 =>
                     FindFit(Cur, free_list, Rounded(op'.size), {}).s.mem = mem]_vars

\* a call that passed over a listed block that was too small and took the
\* next one
C17_Witness ==
    /\ status = "ok" /\ op.kind = "malloc" /\ op.reused # NULL
    /\ ~op.split /\ op.reused # free_list
    /\ op.ret = data_addr(op.reused)

(* C18: between the allocate that returns p and the release of p, no
   allocate or release on another block writes a word of p's payload or
   p's header *)

\* the header and payload words of a held block
OwnWords(e) == {a \in (e.p - WORD)..(e.p + e.sz - WORD) : a % WORD = 0}

C18_LivePayloadKept ==
    [][(op'.kind \in {"malloc", "free"} /\ status' = "ok" /\ plain')
           => \A i \in 1..Len(live) :
                  (live[i].p # op'.p /\ live[i].p # op'.ret)
                      => \A a \in OwnWords(live[i]) :
                             Load(Cur', a) = Load(Cur, a)]_vars

(* C19: after every completed call, the address at which the next block
   would be carved (the end of last, or the heap start) is at or beyond the
   end of every existing block, used or free *)

EndOf(b) == b + WORD + get_size(Cur, b) + WORD

C19_CarveBeyondBlocks ==
    (status = "ok" /\ plain /\ first # NULL) =>
        /\ \A b \in Range(FreeListBlocks) :
               EndOf(b) <= next_available_block(Cur)
        /\ \A i \in 1..Len(live) :
               EndOf(head_addr(live[i].p)) <= next_available_block(Cur)
        /\ \A b \in Range(FreeListBlocks) : first <= b

(* C20: once bootstrapped, the heap end never decreases and heap_end - heap
   is a positive multiple of 1024; every word a call reads or writes lies
   inside [heap, heap_end) *)

C20_HeapExtent ==
    [][/\ heap # NEG1 =>
              /\ heap' = heap
              /\ heap_end' >= heap_end
       /\ heap' # NEG1 =>
              /\ heap_end' > heap'
              /\ (heap_end' - heap') % ALLOC_SIZE = 0
       /\ (plain' /\ op'.kind \in {"malloc", "free"}) => ~op'.oob]_vars

====
